---- MODULE Spec2Model ----
(***************************************************************************)
(* A model of the auto-crawler's crawl orchestration: the page planner     *)
(* (AutoReviewCrawler.prepare_pages / round_robin_split), the fetcher with *)
(* its retry ceiling (_fetch_view), the extractor (_extract_reviews), the  *)
(* per-worker crawl loop (crawl), the coordinator (main and the __main__   *)
(* loop) and the persistence operations of DBRepository.                   *)
(*                                                                         *)
(* A page's content is the sequence of its record containers: a container  *)
(* is a well-formed review, with its link (identifier) and its text, or    *)
(* Malformed when its field extraction raises.  The Settings row is        *)
(* total_pages (0 is the column default, "not stored yet") and             *)
(* visited_pages, an integer ARRAY kept as a sequence.  The reviews table  *)
(* is the set of its rows, at most one for a link (the primary key).       *)
(*                                                                         *)
(* The Settings row with id 1 exists, with the column defaults, before the *)
(* first run.  parser_class is any HTMLParser that is built from the       *)
(* markup alone, as the crawler calls it.  A step of a worker is one of    *)
(* its awaits: a response of the source, store_reviews, store_visited_page.*)
(*                                                                         *)
(* Spec is the crawler run again and again against a source whose page     *)
(* count and pages change freely.  SpecPlan is one call of prepare_pages   *)
(* from the states earlier runs leave behind, with larger page counts.     *)
(* SpecSplit is round_robin_split applied to arbitrary page lists.         *)
(* SpecStore is one call of store_reviews, by a worker that has extracted  *)
(* a page, on any batch and any reviews table.                             *)
(* SpecFull is Spec with _should_parse_full_review set.  SpecTraits is the *)
(* conversion of one review's pros and cons into the columns of its row.   *)
(* SpecCover is the loop against a source that keeps its page count and    *)
(* answers every request, with every step that can be taken being taken.   *)
(***************************************************************************)
EXTENDS Integers, Sequences, FiniteSets, TLC

VARIABLES
    total_pages,            \* Settings.total_pages
    visited_pages,          \* Settings.visited_pages
    stored_reviews,         \* the rows of table reviews
    phase,                  \* "idle": between runs of main; "crawl": gather is running;
                            \* "ended": main has just returned
    runs,                   \* runs of main started so far
    params,                 \* main's total_pages_to_crawl and workers, after lines 249-252
    source_pages,           \* what _get_total_pages returned in this run
    delta,                  \* local delta of prepare_pages
    planned,                \* local pages_to_crawl of prepare_pages
    pages_per_worker,       \* what prepare_pages returned in this run
    pc,                     \* per worker: "fetch", "skip", "store", "mark", "done", "dead"
    idx,                    \* per worker: position in its page list
    attempts,               \* per worker: requests made so far by the _fetch_view call in
                            \* progress (0 when none is)
    resp,                   \* per worker: outcome of the last request for the current page
    status,                 \* per worker: response.status of that request, 0 without a response
    html,                   \* per worker: local html of crawl, while it is live
    reviews,                \* per worker: local reviews of crawl
    duplicates,             \* per worker: len(failed) of the ReviewAlreadyExists that
                            \* store_reviews raised for the current page, 0 when it raised none
    total_reviews_scrapped, \* AutoReviewCrawler.total_reviews_scrapped
    reported,               \* the count main printed when it ended, or NoReport
    marks,                  \* <<worker, page>> of every store_visited_page call of this run
    skipped,                \* <<worker, page>> of every page skipped by `continue` in this run
    listing,                \* how _get_total_pages ended in the last run of main: "ok", or
                            \* why it raised; "none" between runs
    _should_parse_full_review, \* AutoReviewCrawler._should_parse_full_review
    cur_review,             \* store_reviews on its own: the pros and cons of a review
    new_review              \* store_reviews on its own: the Review built from it

vars == <<total_pages, visited_pages, stored_reviews, phase, runs, params, source_pages,
          delta, planned, pages_per_worker, pc, idx, attempts, resp, status, html, reviews,
          duplicates, total_reviews_scrapped, reported, marks, skipped, listing,
          _should_parse_full_review, cur_review, new_review>>

persisted == <<total_pages, visited_pages, stored_reviews>>
planVars == <<params, source_pages, delta, planned, pages_per_worker, listing>>
\* what no step of a run changes
fixed == <<_should_parse_full_review, cur_review, new_review>>

----------------------------------------------------------------------------
(* Program constants *)

MAX_RETRIES == 5

(* Bounds of the model *)

MaxTotal == 3        \* the source reports between 1 and MaxTotal pages
MaxBudget == 2       \* total_pages_to_crawl of a run
MaxWorkers == 2      \* workers of a run
MaxRuns == 3         \* runs of main in one behaviour
MaxLinks == 1        \* distinct review links the source serves
MaxTexts == 1        \* distinct review texts the source serves
MaxContainers == 2   \* record containers on one page

PlanMaxTotal == 12   \* planner scenarios: largest page count, stored or reported
PlanMaxDrift == 2    \* planner scenarios: largest change of the page count
PlanMaxGaps == 2     \* planner scenarios: pages that failed in earlier runs
PlanMaxBudget == 3   \* planner scenarios: total_pages_to_crawl

SplitMaxLen == 4     \* round_robin_split on its own: length of the page list
SplitMaxPage == 3    \* round_robin_split on its own: page indices
SplitMaxWorkers == 3 \* round_robin_split on its own: workers

StoreMaxLinks == 2   \* store_reviews on its own: distinct links
StoreMaxTexts == 2   \* store_reviews on its own: distinct texts
StoreMaxBatch == 3   \* store_reviews on its own: reviews in the batch

----------------------------------------------------------------------------
(* Helpers *)

Range(s) == {s[i] : i \in DOMAIN s}

Max(S) == CHOOSE x \in S : \A y \in S : y <= x

Min(S) == CHOOSE x \in S : \A y \in S : x <= y

Min2(a, b) == IF a <= b THEN a ELSE b

Abs(a) == IF a < 0 THEN -a ELSE a

RECURSIVE Ascending(_)
Ascending(S) == IF S = {} THEN <<>> ELSE <<Min(S)>> \o Ascending(S \ {Min(S)})

NoDuplicates(s) == \A i, j \in DOMAIN s : i # j => s[i] # s[j]

Count(s, x) == Cardinality({i \in DOMAIN s : s[i] = x})

SeqsUpTo(S, n) == UNION {[1..k -> S] : k \in 0..n}

\* Every order in which list(a_set) can enumerate the n first elements of a
\* set: Python leaves the iteration order of a set unspecified.
RECURSIVE Listings(_, _)
Listings(S, n) ==
    IF n = 0 THEN {<<>>}
    ELSE UNION {{<<x>> \o s : s \in Listings(S \ {x}, n - 1)} : x \in S}

NoReport == -1

\* A review is the dict _parse_short_review fills: its link and, for all the
\* other fields, its text.
Review(links, texts) == [link : links, review_text : texts]
Malformed == [link |-> 0, review_text |-> 0]

\* review_text is None when the page shows no text for the review (line 133);
\* column reviews.review_text is NOT NULL
NoText == 0
Complete(review) == review.review_text # NoText
Unbound == <<[link |-> -1, review_text |-> -1]>>

Links == 1..MaxLinks
Texts == 1..MaxTexts
Contents == SeqsUpTo(Review(Links, Texts) \cup {Malformed}, MaxContainers)

\* statuses other than 200 and 404 that the source answers with
OtherStatuses == {204, 500}

\* the primary keys of the rows of a table
LinksOf(table) == {r.link : r \in table}

----------------------------------------------------------------------------
(* Pure functions of the crawler *)

RECURSIVE RoundRobinLoop(_, _, _, _)
RoundRobinLoop(pages_to_crawl, workers, i, buckets) ==
    IF i >= Len(pages_to_crawl) THEN buckets
    ELSE RoundRobinLoop(pages_to_crawl, workers, i + 1,
            [buckets EXCEPT ![(i % workers) + 1] = Append(@, pages_to_crawl[i + 1])])

RECURSIVE RoundRobinLoopShifted(_, _, _, _)
RoundRobinLoopShifted(pages_to_crawl, workers, i, buckets) ==
    IF i >= Len(pages_to_crawl) THEN buckets
    ELSE RoundRobinLoopShifted(pages_to_crawl, workers, i + 1,
            [buckets EXCEPT ![((i + 1) % workers) + 1] = Append(@, pages_to_crawl[i + 1])])

\* a variant that starts the rotation at the second bucket
round_robin_split_shifted(pages_to_crawl, workers) ==
    RoundRobinLoopShifted(pages_to_crawl, workers, 0, [b \in 1..workers |-> <<>>])

\* buckets[b + 1] is the code's buckets[b]; i is the 0-based enumerate index.
round_robin_split(pages_to_crawl, workers) ==
    RoundRobinLoop(pages_to_crawl, workers, 0, [b \in 1..workers |-> <<>>])

\* a variant that shifts the wrong way
adjust_visited_pages_backwards(visited, k) ==
    [i \in 1..Len(visited) |-> visited[i] - k]

\* UPDATE settings SET visited_pages = coalesce(array_agg(x + k), '{}') FROM unnest(visited_pages) x
adjust_visited_pages(visited, k) ==
    [i \in 1..Len(visited) |-> visited[i] + k]

RECURSIVE ExtractLoop(_, _, _)
ExtractLoop(page, i, acc) ==
    IF i > Len(page) THEN acc
    ELSE IF page[i] = Malformed \/ _should_parse_full_review
         THEN acc   \* the exception leaves the for loop
    ELSE ExtractLoop(page, i + 1, Append(acc, page[i]))

_extract_reviews(page) == ExtractLoop(page, 1, <<>>)

----------------------------------------------------------------------------
(* The page planner *)

\* a variant that starts one page late
extra_pages_late(start_page, extra_pages_count) ==
    [i \in 1..extra_pages_count |-> start_page + i]

\* a variant that repeats the start page
extra_pages_repeated(start_page, extra_pages_count) ==
    [i \in 1..extra_pages_count |-> start_page]

\* range(start_page, start_page + extra_pages_count)
extra_pages(start_page, extra_pages_count) ==
    [i \in 1..extra_pages_count |-> start_page + i - 1]

\* a variant without the cap at the page count
max_visited_page_uncapped(total, visited) ==
    IF visited # {} THEN Max(visited) ELSE 0

\* min(total_pages, max(visited_pages)), or 0 for an empty set
max_visited_page(total, visited) ==
    IF visited # {} THEN Min2(total, Max(visited)) ELSE 0

\* a variant that looks for gaps only above the lowest visited page
missing_pages_above_lowest(start_page, visited) ==
    IF visited = {} THEN {} ELSE (Min(visited)..(start_page - 1)) \ visited

\* set(range(1, start_page)) - visited_pages
missing_pages(start_page, visited) == (1..(start_page - 1)) \ visited

\* a variant that puts the new pages before the missing ones
pages_to_crawl_new_first(start_page, missing, budget) ==
    LET n == Cardinality(missing)
    IN  IF n > budget THEN Listings(missing, budget)
        ELSE IF n = budget THEN Listings(missing, n)
        ELSE {extra_pages(start_page, budget - n) \o m : m \in Listings(missing, n)}

\* The lists pages_to_crawl that lines 92-100 can build.  missing_pages is
\* list(a set): any listing of it.
pages_to_crawl(start_page, missing, budget) ==
    LET n == Cardinality(missing)
    IN  IF n > budget THEN Listings(missing, budget)
        ELSE IF n = budget THEN Listings(missing, n)
        ELSE {m \o extra_pages(start_page, budget - n) : m \in Listings(missing, n)}

\* a variant that does not look for missing pages
no_pages_left_at_end(total, visited) ==
    max_visited_page(total, visited) = total

\* line 89: the source is fully covered
no_pages_left(total, visited) ==
    LET mvp == max_visited_page(total, visited)
    IN  mvp = total /\ missing_pages(mvp + 1, visited) = {}

\* a variant without lines 72-74: an unset page count is compared as it is
prepare_pages_no_first_run(total_pages_to_crawl, workers, total) ==
    LET budget == IF total_pages_to_crawl > total THEN total ELSE total_pages_to_crawl
        d == total - total_pages
        visited == IF d # 0 THEN adjust_visited_pages(visited_pages, d)
                   ELSE visited_pages
        start_page == max_visited_page(total, Range(visited)) + 1
    IN  /\ total_pages' = total
        /\ delta' = d
        /\ visited_pages' = visited
        /\ IF no_pages_left(total, Range(visited))
           THEN /\ planned' = <<>>
                /\ pages_per_worker' = <<>>
           ELSE /\ planned' \in pages_to_crawl(start_page,
                                    missing_pages(start_page, Range(visited)), budget)
                /\ pages_per_worker' = round_robin_split(planned', workers)

\* One call of prepare_pages when the source reports `total` pages.
prepare_pages(total_pages_to_crawl, workers, total) ==
    LET stored_total_pages == IF total_pages = 0 THEN total ELSE total_pages
        budget == IF total_pages_to_crawl > total THEN total ELSE total_pages_to_crawl
        d == total - stored_total_pages
        visited == IF d # 0 THEN adjust_visited_pages(visited_pages, d)
                   ELSE visited_pages
        start_page == max_visited_page(total, Range(visited)) + 1
    IN  /\ total_pages' = total
        /\ delta' = d
        /\ visited_pages' = visited
        /\ IF no_pages_left(total, Range(visited))
           THEN /\ planned' = <<>>
                /\ pages_per_worker' = <<>>
           ELSE /\ planned' \in pages_to_crawl(start_page,
                                    missing_pages(start_page, Range(visited)), budget)
                /\ pages_per_worker' = round_robin_split(planned', workers)

----------------------------------------------------------------------------
(* The coordinator: main, called again and again by the __main__ loop *)

NoParams == [total_pages_to_crawl |-> 0, workers |-> 0]

NoRun ==
    /\ params = NoParams
    /\ source_pages = 0
    /\ delta = 0
    /\ planned = <<>>
    /\ pages_per_worker = <<>>
    /\ pc = <<>>
    /\ idx = <<>>
    /\ attempts = <<>>
    /\ resp = <<>>
    /\ status = <<>>
    /\ html = <<>>
    /\ reviews = <<>>
    /\ duplicates = <<>>
    /\ total_reviews_scrapped = 0
    /\ reported = NoReport
    /\ marks = {}
    /\ skipped = {}
    /\ listing = "none"

\* no review is being built
NoTraits == [pros |-> <<>>, cons |-> <<>>]
NoRow == [pros |-> <<>>, pros_text |-> <<>>, cons |-> <<>>, cons_text |-> <<>>]

\* AutoReviewCrawler.__init__ leaves _should_parse_full_review None, and
\* nothing sets it.
Constructed ==
    /\ _should_parse_full_review = FALSE
    /\ cur_review = NoTraits
    /\ new_review = NoRow

Init ==
    /\ total_pages = 0
    /\ visited_pages = <<>>
    /\ stored_reviews = {}
    /\ phase = "idle"
    /\ runs = 0
    /\ Constructed
    /\ NoRun

\* main up to the start of gather: prepare_pages succeeded and one crawl task
\* per inner list exists.  A task whose list is empty has nothing to do.
StartRunWith(budgets, workerCounts, totals) ==
    /\ phase = "idle"
    /\ runs < MaxRuns
    /\ \E b \in budgets, w \in workerCounts, t \in totals :
          /\ prepare_pages(b, w, t)
          /\ params' = [total_pages_to_crawl |-> b, workers |-> w]
          /\ source_pages' = t
    /\ phase' = "crawl"
    /\ runs' = runs + 1
    /\ pc' = [w \in DOMAIN pages_per_worker' |->
                IF pages_per_worker'[w] = <<>> THEN "done" ELSE "fetch"]
    /\ idx' = [w \in DOMAIN pages_per_worker' |-> 1]
    /\ attempts' = [w \in DOMAIN pages_per_worker' |-> 0]
    /\ resp' = [w \in DOMAIN pages_per_worker' |-> "none"]
    /\ status' = [w \in DOMAIN pages_per_worker' |-> 0]
    /\ html' = [w \in DOMAIN pages_per_worker' |-> <<>>]
    /\ reviews' = [w \in DOMAIN pages_per_worker' |-> Unbound]
    /\ duplicates' = [w \in DOMAIN pages_per_worker' |-> 0]
    /\ total_reviews_scrapped' = 0
    /\ marks' = {}
    /\ skipped' = {}
    /\ listing' = "ok"
    /\ UNCHANGED <<stored_reviews, reported, fixed>>

StartRun == StartRunWith(1..MaxBudget, 1..MaxWorkers, 1..MaxTotal)

\* main returns having printed `count` (or nothing): the crawler object and
\* its tasks are gone.
EndRun(count) ==
    /\ phase' = "ended"
    /\ reported' = count
    /\ params' = NoParams
    /\ source_pages' = 0
    /\ delta' = 0
    /\ planned' = <<>>
    /\ pages_per_worker' = <<>>
    /\ pc' = <<>>
    /\ idx' = <<>>
    /\ attempts' = <<>>
    /\ resp' = <<>>
    /\ status' = <<>>
    /\ html' = <<>>
    /\ reviews' = <<>>
    /\ duplicates' = <<>>
    /\ total_reviews_scrapped' = 0
    /\ marks' = {}
    /\ skipped' = {}

\* The __main__ loop sleeps until the next run.
Sleep ==
    /\ phase = "ended"
    /\ phase' = "idle"
    /\ reported' = NoReport
    /\ listing' = "none"
    /\ UNCHANGED <<persisted, runs, params, source_pages, delta, planned, pages_per_worker,
                   pc, idx, attempts, resp, status, html, reviews, duplicates,
                   total_reviews_scrapped, marks, skipped, fixed>>

\* Why _get_total_pages raises: _fetch_view of the listing raises
\* FailedToFetchView after MAX_RETRIES attempts, a transport error or a
\* decoding error; or it returns '' for a 404, or a page without a numeric
\* .page-link, and max() of nothing raises ValueError.
ListingFailures == {"failed", "transport error", "undecodable", "404", "no page link"}

\* a variant that has stored a page count of 0 before it raises
PlanningFailsStoring ==
    /\ phase = "idle"
    /\ runs < MaxRuns
    /\ runs' = runs + 1
    /\ \E cause \in ListingFailures : listing' = cause
    /\ EndRun(NoReport)
    /\ total_pages' = 0
    /\ UNCHANGED <<visited_pages, stored_reviews, fixed>>

\* _get_total_pages raises in the first line of prepare_pages: main logs the
\* exception; nothing was read or written and no task exists.
PlanningFails ==
    /\ phase = "idle"
    /\ runs < MaxRuns
    /\ runs' = runs + 1
    /\ \E cause \in ListingFailures : listing' = cause
    /\ EndRun(NoReport)
    /\ UNCHANGED <<persisted, fixed>>

\* gather returned: every task ran to the end of its list.
Report ==
    /\ phase = "crawl"
    /\ \A w \in DOMAIN pc : pc[w] = "done"
    /\ EndRun(total_reviews_scrapped)
    /\ listing' = "none"
    /\ UNCHANGED <<persisted, runs, fixed>>

\* A task raised: gather passes the exception to main, which logs it and
\* returns without printing; asyncio.run cancels the tasks still running.
Abort ==
    /\ phase = "crawl"
    /\ \E w \in DOMAIN pc : pc[w] = "dead"
    /\ EndRun(NoReport)
    /\ listing' = "none"
    /\ UNCHANGED <<persisted, runs, fixed>>

----------------------------------------------------------------------------
(* One worker: crawl(pages_to_crawl) *)

page(w) == pages_per_worker[w][idx[w]]

\* a variant that passes over the page after the one just handled
NextPageSkipping(w) ==
    /\ idx' = [idx EXCEPT ![w] = @ + 2]
    /\ pc' = [pc EXCEPT ![w] = IF idx[w] + 2 > Len(pages_per_worker[w])
                                THEN "done" ELSE "fetch"]
    /\ attempts' = [attempts EXCEPT ![w] = 0]
    /\ resp' = [resp EXCEPT ![w] = "none"]
    /\ status' = [status EXCEPT ![w] = 0]
    /\ html' = [html EXCEPT ![w] = <<>>]
    /\ duplicates' = [duplicates EXCEPT ![w] = 0]

\* The for loop takes the next page, or the task ends.
NextPage(w) ==
    /\ idx' = [idx EXCEPT ![w] = @ + 1]
    /\ pc' = [pc EXCEPT ![w] = IF idx[w] + 1 > Len(pages_per_worker[w])
                                THEN "done" ELSE "fetch"]
    /\ attempts' = [attempts EXCEPT ![w] = 0]
    /\ resp' = [resp EXCEPT ![w] = "none"]
    /\ status' = [status EXCEPT ![w] = 0]
    /\ html' = [html EXCEPT ![w] = <<>>]
    /\ duplicates' = [duplicates EXCEPT ![w] = 0]

At(w, where) ==
    /\ phase = "crawl"
    /\ w \in DOMAIN pc
    /\ pc[w] = where

\* lines 218 and 224-228: the body arrived, the reviews are extracted and counted
Extracted(w, outcome, content) ==
    /\ attempts' = [attempts EXCEPT ![w] = 0]
    /\ resp' = [resp EXCEPT ![w] = outcome]
    /\ status' = [status EXCEPT ![w] = IF outcome = "404" THEN 404 ELSE 200]
    /\ html' = [html EXCEPT ![w] = content]
    /\ reviews' = [reviews EXCEPT ![w] = _extract_reviews(content)]
    /\ total_reviews_scrapped' = total_reviews_scrapped + Len(_extract_reviews(content))
    /\ pc' = [pc EXCEPT ![w] = "store"]
    /\ UNCHANGED <<persisted, phase, runs, planVars, fixed, idx, duplicates, reported, marks, skipped>>

\* status 200: the body is the page
FetchOk(w) ==
    /\ At(w, "fetch")
    /\ \E content \in Contents : Extracted(w, "200", content)

\* a variant in which 404 is retried like any other failure
FetchNotFoundRetried(w) ==
    /\ At(w, "fetch")
    /\ attempts' = [attempts EXCEPT ![w] = @ + 1]
    /\ resp' = [resp EXCEPT ![w] = "404"]
    /\ status' = [status EXCEPT ![w] = 404]
    /\ pc' = [pc EXCEPT ![w] = IF attempts[w] + 1 < MAX_RETRIES THEN "fetch" ELSE "skip"]
    /\ UNCHANGED <<persisted, phase, runs, planVars, fixed, idx, html, reviews, duplicates,
                   total_reviews_scrapped, reported, marks, skipped>>

\* status 404: _fetch_view returns '' at once
FetchNotFound(w) ==
    /\ At(w, "fetch")
    /\ Extracted(w, "404", <<>>)

\* a variant that gives up after the first failed attempt
FetchFailedOnce(w) ==
    /\ At(w, "fetch")
    /\ \E s \in OtherStatuses : status' = [status EXCEPT ![w] = s]
    /\ attempts' = [attempts EXCEPT ![w] = @ + 1]
    /\ resp' = [resp EXCEPT ![w] = "failed"]
    /\ pc' = [pc EXCEPT ![w] = "skip"]
    /\ UNCHANGED <<persisted, phase, runs, planVars, fixed, idx, html, reviews, duplicates,
                   total_reviews_scrapped, reported, marks, skipped>>

\* any other status (line 115: response.status != 200): FailedToFetchView;
\* tenacity calls again until MAX_RETRIES attempts were made, then re-raises
FetchFailed(w) ==
    /\ At(w, "fetch")
    /\ \E s \in OtherStatuses : status' = [status EXCEPT ![w] = s]
    /\ attempts' = [attempts EXCEPT ![w] = @ + 1]
    /\ resp' = [resp EXCEPT ![w] = "failed"]
    /\ pc' = [pc EXCEPT ![w] = IF attempts[w] + 1 < MAX_RETRIES THEN "fetch" ELSE "skip"]
    /\ UNCHANGED <<persisted, phase, runs, planVars, fixed, idx, html, reviews, duplicates,
                   total_reviews_scrapped, reported, marks, skipped>>

\* a variant in which the skipped page falls through to store_visited_page
SkipPageMarked(w) ==
    /\ At(w, "skip")
    /\ skipped' = skipped \cup {<<w, page(w)>>}
    /\ visited_pages' = Append(visited_pages, page(w))
    /\ marks' = marks \cup {<<w, page(w)>>}
    /\ NextPage(w)
    /\ UNCHANGED <<total_pages, stored_reviews, phase, runs, planVars, fixed, reviews,
                   total_reviews_scrapped, reported>>

\* lines 219-221: crawl catches FailedToFetchView, logs, continues
SkipPage(w) ==
    /\ At(w, "skip")
    /\ skipped' = skipped \cup {<<w, page(w)>>}
    /\ NextPage(w)
    /\ UNCHANGED <<persisted, phase, runs, planVars, fixed, reviews, total_reviews_scrapped,
                   reported, marks>>

\* a transport error (aiohttp.ClientError) is neither retried nor caught by crawl
FetchTransportError(w) ==
    /\ At(w, "fetch")
    /\ attempts' = [attempts EXCEPT ![w] = 0]
    /\ resp' = [resp EXCEPT ![w] = "transport error"]
    /\ status' = [status EXCEPT ![w] = 0]
    /\ pc' = [pc EXCEPT ![w] = "dead"]
    /\ UNCHANGED <<persisted, phase, runs, planVars, fixed, idx, html, reviews, duplicates,
                   total_reviews_scrapped, reported, marks, skipped>>

\* status 200 with a body response.text() cannot decode: UnicodeDecodeError, a
\* ValueError.  crawl logs it and goes on with the reviews it already holds;
\* on the task's first page the name is unbound and the task dies.
FetchUndecodable(w) ==
    /\ At(w, "fetch")
    /\ attempts' = [attempts EXCEPT ![w] = 0]
    /\ resp' = [resp EXCEPT ![w] = "undecodable"]
    /\ status' = [status EXCEPT ![w] = 200]
    /\ IF reviews[w] = Unbound
       THEN /\ pc' = [pc EXCEPT ![w] = "dead"]
            /\ UNCHANGED total_reviews_scrapped
       ELSE /\ pc' = [pc EXCEPT ![w] = "store"]
            /\ total_reviews_scrapped' = total_reviews_scrapped + Len(reviews[w])
    /\ UNCHANGED <<persisted, phase, runs, planVars, fixed, idx, html, reviews, duplicates, reported,
                   marks, skipped>>

\* lines 72-78 of store_reviews: after the rollback each review is added and
\* committed on its own; one whose INSERT raises IntegrityError (its link is
\* in the table, or it lacks its text) is kept in `failed`.  The result is
\* the table and len(failed).
RECURSIVE OneByOne(_, _, _, _)
OneByOne(db_reviews, i, table, failed) ==
    IF i > Len(db_reviews) THEN [table |-> table, failed |-> failed]
    ELSE IF db_reviews[i].link \in LinksOf(table) \/ ~Complete(db_reviews[i])
         THEN OneByOne(db_reviews, i + 1, table, failed + 1)
         ELSE OneByOne(db_reviews, i + 1, table \cup {db_reviews[i]}, failed)

\* the INSERT of review i of the batch, after those before it, raises
Violates(db_reviews, i, table) ==
    \/ ~Complete(db_reviews[i])
    \/ db_reviews[i].link \in LinksOf(table)
    \/ \E j \in 1..(i - 1) : db_reviews[j].link = db_reviews[i].link

\* line 67: the commit of the whole batch succeeds when no INSERT raises.
BatchCommits(db_reviews, table) ==
    \A i \in DOMAIN db_reviews : ~Violates(db_reviews, i, table)

\* line 69: the IntegrityError of the batch is the one of the first INSERT
\* that raises; it is a duplicate key when that review has its text (NOT NULL
\* is checked before the primary key).
DuplicateKey(db_reviews, table) ==
    LET first == Min({i \in DOMAIN db_reviews : Violates(db_reviews, i, table)})
    IN  Complete(db_reviews[first])

\* a variant that replaces the stored row by the new one
store_reviews_overriding(w, cur_reviews) ==
    /\ stored_reviews' = {r \in stored_reviews : r.link \notin LinksOf(Range(cur_reviews))}
                            \cup OneByOne(cur_reviews, 1, {}, 0).table
    /\ duplicates' = [duplicates EXCEPT ![w] = OneByOne(cur_reviews, 1, stored_reviews, 0).failed]

\* DBRepository.store_reviews, called by worker w: the batch commit, or the
\* one-by-one fallback after a duplicate key, which raises ReviewAlreadyExists
\* with len(failed); crawl catches it and logs it.
store_reviews(w, cur_reviews) ==
    IF BatchCommits(cur_reviews, stored_reviews)
    THEN /\ stored_reviews' = stored_reviews \cup Range(cur_reviews)
         /\ duplicates' = [duplicates EXCEPT ![w] = 0]
    ELSE IF DuplicateKey(cur_reviews, stored_reviews)
    THEN LET fallback == OneByOne(cur_reviews, 1, stored_reviews, 0)
         IN  /\ stored_reviews' = fallback.table
             /\ duplicates' = [duplicates EXCEPT ![w] = fallback.failed]
    ELSE \* any other IntegrityError passes the `if` of line 69 and is dropped
         /\ stored_reviews' = stored_reviews
         /\ duplicates' = [duplicates EXCEPT ![w] = 0]

\* a variant in which ReviewAlreadyExists is not caught and ends the task
StoreReviewsUncaught(w) ==
    /\ At(w, "store")
    /\ store_reviews(w, reviews[w])
    /\ pc' = [pc EXCEPT ![w] = IF duplicates'[w] > 0 THEN "dead" ELSE "mark"]
    /\ html' = [html EXCEPT ![w] = <<>>]
    /\ UNCHANGED <<total_pages, visited_pages, phase, runs, planVars, fixed, idx, attempts, resp,
                   status, reviews, total_reviews_scrapped, reported, marks, skipped>>

StoreReviews(w) ==
    /\ At(w, "store")
    /\ store_reviews(w, reviews[w])
    /\ pc' = [pc EXCEPT ![w] = "mark"]
    /\ html' = [html EXCEPT ![w] = <<>>]
    /\ UNCHANGED <<total_pages, visited_pages, phase, runs, planVars, fixed, idx, attempts, resp,
                   status, reviews, total_reviews_scrapped, reported, marks, skipped>>

\* a variant that writes nothing
store_visited_page_dropped(page_number) ==
    visited_pages' = visited_pages

\* DBRepository.store_visited_page: array_append
store_visited_page(page_number) ==
    visited_pages' = Append(visited_pages, page_number)

StoreVisitedPage(w) ==
    /\ At(w, "mark")
    /\ store_visited_page(page(w))
    /\ marks' = marks \cup {<<w, page(w)>>}
    /\ NextPage(w)
    /\ UNCHANGED <<total_pages, stored_reviews, phase, runs, planVars, fixed, reviews,
                   total_reviews_scrapped, reported, skipped>>

Worker(w) ==
    \/ FetchOk(w)
    \/ FetchNotFound(w)
    \/ FetchFailed(w)
    \/ SkipPage(w)
    \/ FetchTransportError(w)
    \/ FetchUndecodable(w)
    \/ StoreReviews(w)
    \/ StoreVisitedPage(w)

Next ==
    \/ StartRun
    \/ PlanningFails
    \/ Report
    \/ Abort
    \/ Sleep
    \/ \E w \in 1..MaxWorkers : Worker(w)

Spec == Init /\ [][Next]_vars

\* The shape of the states of the running crawler (Spec, SpecPlan, SpecStore).
TypeOK ==
    /\ total_pages \in Nat
    /\ phase \in {"idle", "crawl", "ended"}
    /\ runs \in 0..MaxRuns
    /\ DOMAIN pc = DOMAIN pages_per_worker
    /\ \A w \in DOMAIN pc : pc[w] \in {"fetch", "skip", "store", "mark", "done", "dead"}
    /\ \A w \in DOMAIN pc : attempts[w] \in 0..MAX_RETRIES
    /\ \A w \in DOMAIN pc : status[w] \in {0, 200, 404} \cup OtherStatuses
    /\ \A w \in DOMAIN pc : duplicates[w] \in 0..Len(reviews[w])
    /\ \A r1, r2 \in stored_reviews : r1.link = r2.link => r1 = r2
    /\ listing \in {"none", "ok"} \cup ListingFailures
    /\ _should_parse_full_review \in BOOLEAN

----------------------------------------------------------------------------
(* The planner on its own: one call of prepare_pages from the persisted     *)
(* state earlier runs can have left: the source had t pages, the first k    *)
(* of them were planned and all but the failed ones were marked visited.    *)

PlannerStates ==
    {<<0, <<>>>>} \cup
    UNION {UNION {{<<t, Ascending((1..k) \ failed)>> :
                      failed \in {f \in SUBSET (1..(k - 1)) : Cardinality(f) <= PlanMaxGaps}} :
                  k \in 0..t} :
           t \in 1..PlanMaxTotal}

InitPlan ==
    /\ \E st \in PlannerStates :
          /\ total_pages = st[1]
          /\ visited_pages = st[2]
    /\ stored_reviews = {}
    /\ phase = "idle"
    /\ runs = 0
    /\ Constructed
    /\ NoRun

PlanOnce ==
    StartRunWith(1..PlanMaxBudget, 1..MaxWorkers,
                 {t \in 1..PlanMaxTotal : total_pages = 0 \/ Abs(t - total_pages) <= PlanMaxDrift})

SpecPlan == InitPlan /\ [][PlanOnce]_vars

----------------------------------------------------------------------------
(* round_robin_split on its own, applied to any list of page indices *)

InitSplit ==
    /\ Constructed
    /\ listing = "none"
    /\ total_pages = 0
    /\ visited_pages = <<>>
    /\ stored_reviews = {}
    /\ phase = "idle"
    /\ runs = 0
    /\ \E p \in SeqsUpTo(1..SplitMaxPage, SplitMaxLen), w \in 1..SplitMaxWorkers :
          /\ planned = p
          /\ params = [total_pages_to_crawl |-> Len(p), workers |-> w]
    /\ source_pages = 0
    /\ delta = 0
    /\ pages_per_worker = <<>>
    /\ pc = <<>>
    /\ idx = <<>>
    /\ attempts = <<>>
    /\ resp = <<>>
    /\ status = <<>>
    /\ html = <<>>
    /\ reviews = <<>>
    /\ duplicates = <<>>
    /\ total_reviews_scrapped = 0
    /\ reported = NoReport
    /\ marks = {}
    /\ skipped = {}

Split ==
    /\ phase = "idle"
    /\ phase' = "split"
    /\ pages_per_worker' = round_robin_split(planned, params.workers)
    /\ UNCHANGED <<persisted, runs, params, source_pages, delta, planned, pc, idx, attempts,
                   resp, status, html, reviews, duplicates, total_reviews_scrapped, reported,
                   marks, skipped, listing, fixed>>

SpecSplit == InitSplit /\ [][Split]_vars

----------------------------------------------------------------------------
(* store_reviews on its own: worker 1 of a run has extracted a batch of      *)
(* reviews from page 1 and calls store_reviews on any reviews table.         *)

\* the tables: every row has its text, and no two rows have one link
StoreTables ==
    {t \in SUBSET Review(1..StoreMaxLinks, 1..StoreMaxTexts) :
        \A r1, r2 \in t : r1.link = r2.link => r1 = r2}

\* the batches: the text of a review may be missing
StoreBatches ==
    SeqsUpTo(Review(1..StoreMaxLinks, {NoText} \cup (1..StoreMaxTexts)), StoreMaxBatch)

InitStore ==
    /\ Constructed
    /\ listing = "ok"
    /\ total_pages = 1
    /\ visited_pages = <<>>
    /\ stored_reviews \in StoreTables
    /\ phase = "crawl"
    /\ runs = 1
    /\ params = [total_pages_to_crawl |-> 1, workers |-> 1]
    /\ source_pages = 1
    /\ delta = 0
    /\ planned = <<1>>
    /\ pages_per_worker = << <<1>> >>
    /\ pc = <<"store">>
    /\ idx = <<1>>
    /\ attempts = <<0>>
    /\ resp = <<"200">>
    /\ status = <<200>>
    /\ \E batch \in StoreBatches :
          /\ html = <<batch>>
          /\ reviews = <<_extract_reviews(batch)>>
          /\ total_reviews_scrapped = Len(_extract_reviews(batch))
    /\ duplicates = <<0>>
    /\ reported = NoReport
    /\ marks = {}
    /\ skipped = {}

StoreOnce == StoreReviews(1)

SpecStore == InitStore /\ [][StoreOnce]_vars

----------------------------------------------------------------------------
(* The crawler with _should_parse_full_review set: _parse_short_review       *)
(* raises NotImplementedError at the end of every container (lines 184-185). *)

InitFull ==
    /\ total_pages = 0
    /\ visited_pages = <<>>
    /\ stored_reviews = {}
    /\ phase = "idle"
    /\ runs = 0
    /\ _should_parse_full_review = TRUE
    /\ cur_review = NoTraits
    /\ new_review = NoRow
    /\ NoRun

SpecFull == InitFull /\ [][Next]_vars

----------------------------------------------------------------------------
(* The __main__ loop against a source that keeps its page count and answers  *)
(* every request: the listing is read, and every page is answered with 200   *)
(* or with 404.  The loop never ends and asyncio runs every task that can    *)
(* run, so a step that can be taken is taken.  The source has fewer pages    *)
(* than there are runs, as coverage can take one run for each page.          *)

CoverMaxTotal == MaxRuns - 1

StartRunSteady ==
    StartRunWith(1..MaxBudget, 1..MaxWorkers,
                 IF total_pages = 0 THEN 1..CoverMaxTotal ELSE {total_pages})

WorkerSteady(w) ==
    \/ FetchOk(w)
    \/ FetchNotFound(w)
    \/ StoreReviews(w)
    \/ StoreVisitedPage(w)

NextCover ==
    \/ StartRunSteady
    \/ Report
    \/ Sleep
    \/ \E w \in 1..MaxWorkers : WorkerSteady(w)

SpecCover == Init /\ [][NextCover]_vars /\ WF_vars(NextCover)

----------------------------------------------------------------------------
(* The pros and cons of one review on their way into a row of the reviews    *)
(* table: lines 44-47 and 58-61 of store_reviews.                            *)

TraitsMaxLen == 2

\* Two of the fourteen members of Characteristic (values transliterated), and
\* the tokens a page can show: the two values and one that is no member's.
Characteristic ==
    <<[name |-> "ACCELERATION", value |-> "dynamika"],
      [name |-> "BRAKES", value |-> "halma"]>>

Names(members) == {members[i].name : i \in DOMAIN members}

Tokens == {"dynamika", "halma", "inshe"}

None == "None"

\* next((name for name, member in cls.__members__.items()
\*       if member.value == value), None)
get_name_by_value(members, value) ==
    LET hits == {i \in DOMAIN members : members[i].value = value}
    IN  IF hits = {} THEN None ELSE members[Min(hits)].name

\* ', '.join(tokens): the tokens with a separator between neighbours
Join(tokens) ==
    [i \in 1..(IF tokens = <<>> THEN 0 ELSE 2 * Len(tokens) - 1) |->
        IF i % 2 = 1 THEN tokens[(i + 1) \div 2] ELSE ", "]

\* lines 44-47: review['pros'] is None or a list of tokens (never an empty
\* list); None is the empty sequence here, and gives [] and a text of None,
\* the empty sequence again.
traits(tokens) == [i \in DOMAIN tokens |-> get_name_by_value(Characteristic, tokens[i])]

InitTraits ==
    /\ total_pages = 0
    /\ visited_pages = <<>>
    /\ stored_reviews = {}
    /\ phase = "review"
    /\ runs = 0
    /\ _should_parse_full_review = FALSE
    /\ cur_review \in [pros : SeqsUpTo(Tokens, TraitsMaxLen),
                       cons : SeqsUpTo(Tokens, TraitsMaxLen)]
    /\ new_review = NoRow
    /\ NoRun

\* lines 44-63: the Review built for one review of the batch
BuildReview ==
    /\ phase = "review"
    /\ phase' = "row"
    /\ new_review' = [pros      |-> traits(cur_review.pros),
                      pros_text |-> Join(cur_review.pros),
                      cons      |-> traits(cur_review.cons),
                      cons_text |-> Join(cur_review.cons)]
    /\ UNCHANGED <<persisted, runs, planVars, pc, idx, attempts, resp, status, html, reviews,
                   duplicates, total_reviews_scrapped, reported, marks, skipped,
                   _should_parse_full_review, cur_review>>

SpecTraits == InitTraits /\ [][BuildReview]_vars

----------------------------------------------------------------------------
(* Claims *)

Workers == DOMAIN pc
Staying == DOMAIN pc \cap DOMAIN pc'
Args(b, w) == [total_pages_to_crawl |-> b, workers |-> w]
WellFormed(c) == c # Malformed

\* The drift scenario of C1: 10 pages stored, pages 1..3 visited, the source
\* now reports 12 pages, and prepare_pages(3, 1) is called.
DriftScenario ==
    /\ total_pages = 10
    /\ visited_pages = <<1, 2, 3>>
    /\ source_pages' = 12
    /\ params' = Args(3, 1)

\* C1 (as stated): in the drift scenario prepare_pages leaves visited_pages =
\* {3,4,5}, computes start_page = 6 with no missing page and returns [[6,7,8]].
C1_Original ==
    [][DriftScenario =>
          /\ visited_pages' = <<3, 4, 5>>
          /\ max_visited_page(12, Range(visited_pages')) + 1 = 6
          /\ missing_pages(6, Range(visited_pages')) = {}
          /\ pages_per_worker' = << <<6, 7, 8>> >>]_vars

\* C1 (amended): in the drift scenario prepare_pages leaves visited_pages =
\* {3,4,5} and computes start_page = 6; pages 1 and 2 are missing, and the plan
\* for the one worker is the two missing pages followed by the new page 6.
C1_DriftScenario ==
    [][DriftScenario =>
          /\ visited_pages' = <<3, 4, 5>>
          /\ total_pages' = 12
          /\ max_visited_page(12, Range(visited_pages')) + 1 = 6
          /\ missing_pages(6, Range(visited_pages')) = {1, 2}
          /\ pages_per_worker' \in {<< <<1, 2, 6>> >>, << <<2, 1, 6>> >>}]_vars

C1_Witness ==
    /\ phase = "crawl"
    /\ source_pages = 12
    /\ delta = 2
    /\ params = Args(3, 1)
    /\ visited_pages = <<3, 4, 5>>
    /\ pages_per_worker = << <<1, 2, 6>> >>

\* C2: with visited_pages = {1,3}, no drift, at least 4 pages and a budget of
\* 2, the missing pages are {2} and the plan is [2,4]: [[2,4]] for one worker,
\* [[2],[4]] for two.
C2_GapFillScenario ==
    [][(/\ visited_pages = <<1, 3>>
        /\ source_pages' = total_pages
        /\ source_pages' >= 4
        /\ params'.total_pages_to_crawl = 2)
       =>
       (/\ visited_pages' = visited_pages
        /\ missing_pages(max_visited_page(source_pages', {1, 3}) + 1, {1, 3}) = {2}
        /\ planned' = <<2, 4>>
        /\ params'.workers = 1 => pages_per_worker' = << <<2, 4>> >>
        /\ params'.workers = 2 => pages_per_worker' = << <<2>>, <<4>> >>)]_vars

C2_Witness ==
    /\ phase = "crawl"
    /\ delta = 0
    /\ source_pages >= 4
    /\ params = Args(2, 2)
    /\ visited_pages = <<1, 3>>
    /\ pages_per_worker = << <<2>>, <<4>> >>

\* Every write of visited_pages while the workers run is one worker's
\* store_visited_page of its current page, recorded in marks.
MarksRecordWrites ==
    (phase = "crawl" /\ phase' = "crawl") =>
        \/ visited_pages' = visited_pages /\ marks' = marks
        \/ \E w \in Workers :
              /\ pc[w] = "mark"
              /\ visited_pages' = Append(visited_pages, page(w))
              /\ marks' = marks \cup {<<w, page(w)>>}

\* C3: once MAX_RETRIES attempts for a page have all failed with a non-404
\* non-2xx status, the fetch has raised; the worker's next step takes it to its
\* next page without writing visited_pages, and no store_visited_page call of
\* this run is for that page.
C3_ExhaustedPageNotVisited ==
    /\ [](\A w \in Workers : attempts[w] = MAX_RETRIES => pc[w] = "skip" /\ resp[w] = "failed")
    /\ [][\A w \in Staying :
            (attempts[w] = MAX_RETRIES /\ <<pc'[w], idx'[w]>> # <<pc[w], idx[w]>>) =>
                /\ idx'[w] = idx[w] + 1
                /\ pc'[w] \in {"fetch", "done"}
                /\ visited_pages' = visited_pages
                /\ <<w, page(w)>> \in skipped']_vars
    /\ [][MarksRecordWrites]_vars
    /\ [](\A s \in skipped : \A m \in marks : m[2] # s[2])

C3_Witness ==
    /\ phase = "crawl"
    /\ \E w \in Workers :
          /\ idx[w] = 2
          /\ pc[w] = "fetch"
          /\ <<w, pages_per_worker[w][1]>> \in skipped
          /\ pages_per_worker[w][1] \notin Range(visited_pages)

C5_Original ==
    phase = "crawl" =>
        \A w \in Workers : \A i \in 1..(idx[w] - 1) :
            pages_per_worker[w][i] \in Range(visited_pages)

\* C5 (amended): every page a worker has finished handling is in
\* visited_pages, marked by that worker, when the worker is at a later page,
\* unless the page was skipped after a terminal fetch failure: a skipped page
\* is not marked.
C5_HandledPageMarked ==
    phase = "crawl" =>
        \A w \in Workers : \A i \in 1..(idx[w] - 1) :
            LET p == pages_per_worker[w][i]
            IN  IF <<w, p>> \in skipped
                THEN <<w, p>> \notin marks
                ELSE <<w, p>> \in marks /\ p \in Range(visited_pages)

C5_Witness ==
    /\ phase = "crawl"
    /\ \E w \in Workers :
          /\ idx[w] = 3
          /\ <<w, pages_per_worker[w][1]>> \in marks
          /\ <<w, pages_per_worker[w][2]>> \in skipped
          /\ reviews[w] = <<>>

\* C6: the reviews extracted from a page are its well-formed containers, all
\* of them, in page order, wherever the malformed ones stand.
C6_PerRecordIsolation ==
    \A w \in Workers :
        (phase = "crawl" /\ pc[w] = "store" /\ resp[w] = "200") =>
            reviews[w] = SelectSeq(html[w], WellFormed)

\* C7: visited_pages holds no page index twice.
C7_SetSemantics ==
    \A p \in Range(visited_pages) : Count(visited_pages, p) = 1

\* C8: when prepare_pages finds a drift d # 0, the stored visited_pages
\* becomes the old one with d added to every entry: as many entries as before,
\* none lost, none duplicated, an empty one still empty.
C8_DriftShiftsEveryEntry ==
    [][(phase = "idle" /\ phase' = "crawl" /\ total_pages # 0
        /\ source_pages' # total_pages) =>
          LET d == source_pages' - total_pages
          IN  /\ delta' = d
              /\ Len(visited_pages') = Len(visited_pages)
              /\ \A i \in DOMAIN visited_pages : visited_pages'[i] = visited_pages[i] + d
              /\ Range(visited_pages') = {v + d : v \in Range(visited_pages)}
              /\ \A v \in Range(visited_pages) :
                    Count(visited_pages', v + d) = Count(visited_pages, v)]_vars

C8_Witness ==
    /\ phase = "crawl"
    /\ delta < 0
    /\ marks = {}
    /\ Cardinality(Range(visited_pages)) >= 2

Buckets == pages_per_worker
SplitDone == phase = "split"

\* What C9 says of every list: W buckets, the same multiset, the element at
\* 0-based position i in bucket i mod W, each bucket in the order of the list.
SplitIsRoundRobin ==
    /\ Len(Buckets) = params.workers
    /\ \A x \in Range(planned) \cup UNION {Range(Buckets[b]) : b \in DOMAIN Buckets} :
          Count(planned, x) =
              Cardinality({<<b, j>> \in (DOMAIN Buckets) \X (1..Len(planned)) :
                              j <= Len(Buckets[b]) /\ Buckets[b][j] = x})
    /\ \A b \in DOMAIN Buckets :
          /\ Len(Buckets[b]) = ((Len(planned) - b) \div params.workers) + 1
          /\ \A j \in 1..Len(Buckets[b]) :
                Buckets[b][j] = planned[(j - 1) * params.workers + b]

BucketsDisjoint ==
    \A a, b \in DOMAIN Buckets : a # b => Range(Buckets[a]) \cap Range(Buckets[b]) = {}

\* C9 (as stated): for any page list and W >= 1 the split is round robin and
\* the buckets are pairwise disjoint.
C9_Original == SplitDone => (SplitIsRoundRobin /\ BucketsDisjoint)

\* C9 (amended): for any page list and W >= 1 the split is round robin; the
\* buckets are pairwise disjoint when the list holds no index twice.
C9_RoundRobinPartition ==
    SplitDone => (SplitIsRoundRobin /\ (NoDuplicates(planned) => BucketsDisjoint))

C9_Witness ==
    /\ SplitDone
    /\ params.workers = 2
    /\ planned = <<3, 1, 2>>
    /\ pages_per_worker = << <<3, 2>>, <<1>> >>

\* C10: the lists handed to the workers of a run hold no index twice and are
\* pairwise disjoint; a worker calls store_visited_page only for pages of its
\* own list, so no page is marked by two workers.
C10_OneMarkerPerPage ==
    phase = "crawl" =>
        /\ NoDuplicates(planned)
        /\ \A w \in Workers : NoDuplicates(pages_per_worker[w])
        /\ BucketsDisjoint
        /\ \A m \in marks : m[2] \in Range(pages_per_worker[m[1]])
        /\ \A m1, m2 \in marks : m1[2] = m2[2] => m1[1] = m2[1]

C10_Witness ==
    /\ phase = "crawl"
    /\ Len(pages_per_worker) = 2
    /\ \E m1, m2 \in marks : m1[1] # m2[1]

\* gather has ended: main returns
RunEnds == phase = "crawl" /\ phase' = "ended"

\* C11: when a worker has failed with an error, every other worker still runs
\* to the end of its own list: at the end of the worker phase each worker that
\* did not fail itself has processed all of its pages.
C11_WorkerIsolation ==
    [][RunEnds => \A w \in Workers : pc[w] \in {"done", "dead"}]_vars

\* C12: a run whose planning succeeded ends by printing the count of scraped
\* reviews; a run ends without a count only when its planning failed.
C12_RunReportsCount ==
    [][(phase # "ended" /\ phase' = "ended") =>
          (reported' = NoReport <=> phase = "idle")]_vars

\* C13: every page of the plan is a page of the source: between 1 and the
\* page count the source reported to this run.
C13_PlanWithinSource ==
    phase = "crawl" => \A p \in Range(planned) : p \in 1..source_pages

\* C14: prepare_pages returns one list for each worker, also when the source
\* is fully covered.
C14_OneListPerWorker ==
    phase = "crawl" => Len(pages_per_worker) = params.workers

\* C15: when store_reviews raises ReviewAlreadyExists for a worker's page the
\* worker goes on: it is at store_visited_page, and its next step appends the
\* page to visited_pages and takes the next page of its list.  The raise
\* itself removes nothing, and while the workers run visited_pages only grows:
\* every step keeps the entries it had, in place, and total_pages.
C15_DuplicatesDoNotStop ==
    /\ [](\A w \in Workers : duplicates[w] > 0 => phase = "crawl" /\ pc[w] = "mark")
    /\ [][\A w \in Staying :
            (duplicates'[w] > 0 /\ duplicates[w] = 0) =>
                /\ pc[w] = "store"
                /\ visited_pages' = visited_pages
                /\ total_pages' = total_pages
                /\ stored_reviews \subseteq stored_reviews']_vars
    /\ [][\A w \in Staying :
            (duplicates[w] > 0 /\ <<pc'[w], idx'[w]>> # <<pc[w], idx[w]>>) =>
                /\ visited_pages' = Append(visited_pages, page(w))
                /\ idx'[w] = idx[w] + 1
                /\ pc'[w] = IF idx[w] < Len(pages_per_worker[w]) THEN "fetch" ELSE "done"]_vars
    /\ [][(phase = "crawl" /\ phase' = "crawl") =>
                /\ total_pages' = total_pages
                /\ Len(visited_pages') >= Len(visited_pages)
                /\ \A i \in DOMAIN visited_pages : visited_pages'[i] = visited_pages[i]]_vars

C15_Witness ==
    /\ phase = "crawl"
    /\ \E w \in Workers :
          /\ idx[w] = 2
          /\ pc[w] = "mark"
          /\ duplicates[w] = 2
          /\ pages_per_worker[w][1] \in Range(visited_pages)

Answered(w) ==
    /\ pc[w] = "fetch"
    /\ <<pc'[w], attempts'[w], resp'[w], status'[w]>> # <<pc[w], attempts[w], resp[w], status[w]>>

\* C17: a fetch makes at most MAX_RETRIES requests.  A response with status
\* 200 or 404 ends it at once; a failed attempt is counted, and is followed by
\* another attempt while fewer than MAX_RETRIES were made; the failure of
\* attempt MAX_RETRIES is raised to crawl, and no further request is made.
C17_FetchIsBounded ==
    /\ [](\A w \in Workers :
            /\ attempts[w] \in 0..MAX_RETRIES
            /\ pc[w] = "fetch" => attempts[w] < MAX_RETRIES
            /\ attempts[w] = MAX_RETRIES => pc[w] = "skip")
    /\ [][\A w \in Staying : Answered(w) =>
            \/ /\ status'[w] \in {200, 404}
               /\ pc'[w] # "fetch"
               /\ attempts'[w] = 0
            \/ /\ resp'[w] = "failed"
               /\ attempts'[w] = attempts[w] + 1
               /\ pc'[w] = IF attempts'[w] < MAX_RETRIES THEN "fetch" ELSE "skip"
            \/ /\ resp'[w] = "transport error"
               /\ pc'[w] = "dead"]_vars
    /\ [][\A w \in Staying : pc[w] # "fetch" => attempts'[w] \in {0, attempts[w]}]_vars

C17_Witness ==
    /\ phase = "crawl"
    /\ \E w \in Workers :
          /\ attempts[w] = MAX_RETRIES
          /\ pc[w] = "skip"
          /\ resp[w] = "failed"

\* C18: a transport error and a response whose status is neither 2xx nor 404
\* are retried up to the attempt ceiling; a response with a 2xx status is a
\* success: the fetch returns its body, it is neither retried nor raised.
C18_FailureClassification ==
    [][\A w \in Staying : (Answered(w) /\ resp'[w] # "undecodable") =>
          IF status'[w] \in 200..299
          THEN pc'[w] = "store"
          ELSE IF status'[w] = 404
          THEN pc'[w] = "store"
          ELSE /\ attempts'[w] = attempts[w] + 1
               /\ pc'[w] = IF attempts'[w] < MAX_RETRIES THEN "fetch" ELSE "skip"]_vars

\* prepare_pages returns to main in this step
Planned == phase = "idle" /\ phase' = "crawl"

\* C19: with T the page count the source reports, the budget is
\* min(total_pages_to_crawl, T) and the plan holds at most that many pages.
\* With start_page one above the highest visited page (capped at T) and the
\* missing pages those below start_page that are not visited: if there are at
\* least budget missing pages the plan is budget distinct missing pages;
\* otherwise, unless there is no work, the plan is all the missing pages
\* followed by start_page, start_page + 1, ... up to budget pages in all.
C19_BudgetAndGapPriority ==
    [][Planned =>
          LET T == source_pages'
              visited == Range(visited_pages')
              budget == IF params'.total_pages_to_crawl < T
                        THEN params'.total_pages_to_crawl ELSE T
              start == 1 + (IF visited = {} THEN 0
                            ELSE IF Max(visited) < T THEN Max(visited) ELSE T)
              missing == {p \in 1..(start - 1) : p \notin visited}
              n == Cardinality(missing)
          IN  /\ Len(planned') <= budget
              /\ \A w \in DOMAIN pages_per_worker' :
                    Range(pages_per_worker'[w]) \subseteq Range(planned')
              /\ n >= budget =>
                    /\ Len(planned') = budget
                    /\ NoDuplicates(planned')
                    /\ Range(planned') \subseteq missing
              /\ (n < budget /\ planned' # <<>>) =>
                    /\ Len(planned') = budget
                    /\ {planned'[i] : i \in 1..n} = missing
                    /\ \A i \in 1..(budget - n) : planned'[n + i] = start + i - 1]_vars

C19_Witness ==
    /\ phase = "crawl"
    /\ delta = 0
    /\ params = Args(3, 1)
    /\ visited_pages = <<1, 3, 4, 6>>
    /\ planned = <<5, 2, 7>>

\* C20: prepare_pages returns no page for any worker exactly when, after the
\* drift correction, the highest visited page capped at T is T and every page
\* of 1..T is visited; otherwise the plan holds at least one page.
C20_NoWorkIffCovered ==
    [][Planned =>
          LET T == source_pages'
              visited == Range(visited_pages')
              covered == /\ visited # {}
                         /\ (IF Max(visited) < T THEN Max(visited) ELSE T) = T
                         /\ \A p \in 1..T : p \in visited
          IN  /\ covered <=> (\A w \in DOMAIN pages_per_worker' : pages_per_worker'[w] = <<>>)
              /\ ~covered => (\E w \in DOMAIN pages_per_worker' : Len(pages_per_worker'[w]) >= 1)
              /\ covered <=> planned' = <<>>]_vars

C20_Witness ==
    /\ phase = "crawl"
    /\ pages_per_worker = <<>>
    /\ \E v \in Range(visited_pages) : v > source_pages
    /\ \A p \in 1..source_pages : p \in Range(visited_pages)

FirstN(n) == [i \in 1..n |-> i]

C22_PlannerWritesFirst ==
    [][/\ Planned =>
            /\ \A w \in DOMAIN pc' :
                  /\ idx'[w] = 1
                  /\ attempts'[w] = 0
                  /\ resp'[w] = "none"
                  /\ pc'[w] \in {"fetch", "done"}
            /\ marks' = {}
            /\ visited_pages' = IF delta' = 0 THEN visited_pages
                                ELSE adjust_visited_pages(visited_pages, delta')
       /\ (phase = "crawl" /\ phase' = "crawl") =>
            /\ total_pages' = total_pages
            /\ pages_per_worker' = pages_per_worker
            /\ MarksRecordWrites
            /\ \A w \in Staying : idx'[w] \in {idx[w], idx[w] + 1}
       /\ (phase # "crawl" /\ phase' # "crawl") =>
            UNCHANGED <<total_pages, visited_pages>>
       /\ (phase = "crawl" /\ phase' # "crawl") =>
            UNCHANGED <<total_pages, visited_pages>>]_vars

C22_Witness ==
    /\ phase = "crawl"
    /\ delta # 0
    /\ \E w \in Workers :
          /\ idx[w] = 2
          /\ pc[w] = "mark"
          /\ <<w, pages_per_worker[w][1]>> \in marks

\* C23: when the page count of the source cannot be determined (the fetch of
\* the listing fails after its retries, or the listing is a 404 or holds no
\* numeric page link), the run ends with no worker started, no page fetched
\* and no count printed, and the stored page count, visited pages and reviews
\* are what they were.
C23_PlannerFailure ==
    [][(phase = "idle" /\ listing' \in ListingFailures) =>
          /\ phase' = "ended"
          /\ UNCHANGED persisted
          /\ pc' = <<>>
          /\ pages_per_worker' = <<>>
          /\ marks' = {}
          /\ skipped' = {}
          /\ reported' = NoReport]_vars

C23_Witness ==
    /\ phase = "ended"
    /\ listing = "no page link"
    /\ total_pages = 2
    /\ visited_pages = <<1>>

\* C26: no page of a plan is among the visited pages as they stand after the
\* correction for drift.
C26_PlanAvoidsVisited ==
    [][Planned => Range(planned') \cap Range(visited_pages') = {}]_vars

\* C29: a page whose body cannot be decoded adds nothing to
\* total_reviews_scrapped.
C29_OwnRecordsOnly ==
    [][\A w \in Staying :
          (resp[w] # "undecodable" /\ resp'[w] = "undecodable") =>
              total_reviews_scrapped' = total_reviews_scrapped]_vars

\* the entries of a list that are names of the enumeration
RECURSIVE Matched(_)
Matched(tokens) ==
    IF tokens = <<>> THEN <<>>
    ELSE LET name == get_name_by_value(Characteristic, Head(tokens))
         IN  IF name = None THEN Matched(Tail(tokens))
             ELSE <<name>> \o Matched(Tail(tokens))

\* C24: the pros and cons of a stored row hold names of the enumeration only,
\* one for each token that matches a member, in the order of the tokens; a
\* token without a match adds no entry.  pros_text and cons_text hold all the
\* tokens.
C24_OnlyEnumerationNames ==
    phase = "row" =>
        /\ new_review.pros = Matched(cur_review.pros)
        /\ new_review.cons = Matched(cur_review.cons)
        /\ Range(new_review.pros) \cup Range(new_review.cons) \subseteq Names(Characteristic)
        /\ new_review.pros_text = Join(cur_review.pros)
        /\ new_review.cons_text = Join(cur_review.cons)

\* C25: with full parsing enabled a page that has a container is not handed
\* on as a page without reviews: the step that receives its body does not
\* take the worker to store_reviews, and the page is not marked visited.
C25_FullParsingFailsLoudly ==
    [][\A w \in Staying :
          (_should_parse_full_review /\ pc[w] = "fetch"
             /\ resp'[w] = "200" /\ html'[w] # <<>>) => pc'[w] # "store"]_vars

\* C28: when store_reviews returns without raising, every review passed to
\* it is a row of the reviews table, and only then is the page marked.
C28_VisitedImpliesCommitted ==
    [][\A w \in Staying :
          (pc[w] = "store" /\ pc'[w] = "mark" /\ duplicates'[w] = 0) =>
              Range(reviews[w]) \subseteq stored_reviews']_vars

Covered == total_pages > 0 /\ (1..total_pages) \subseteq Range(visited_pages)

====
